---- MODULE Spec2Model ----
(***************************************************************************)
(* Model of niftynet/engine/application_variables.py:                      *)
(*   GradientsCollector, OutputsCollector, global_vars_init_or_restore.    *)
(*                                                                         *)
(* The specifications share the module, one per component:                 *)
(*   SpecOutputs    the OutputsCollector (add_to_collection, finalise)     *)
(*   SpecNaming     the OutputsCollector, fed names such as "a_1" that     *)
(*                  clash with the keys its renaming produces              *)
(*   SpecGradients  the GradientsCollector (add_to_collection, gradients)  *)
(*   SpecRestore    global_vars_init_or_restore over the RESTORABLE        *)
(*                  collection                                             *)
(***************************************************************************)
EXTENDS Integers, Sequences, FiniteSets, Bags, TLC

VARIABLES
    n_devices,       \* OutputsCollector.n_devices / GradientsCollector.n_devices
    console_vars,    \* OutputsCollector.console_vars  (dict: name -> entry)
    summary_vars,    \* OutputsCollector.summary_vars
    output_vars,     \* OutputsCollector.output_vars
    merge_op,        \* OutputsCollector._merge_op: <<>> is None, <<h>> a handle
    tf_summaries,    \* the graph collection tf.GraphKeys.SUMMARIES (bag of ops)
    calls,           \* number of add_to_collection calls made so far
    finalised,       \* whether finalise_output_op has run
    result,          \* the last call and how it ended
    grad_devices,    \* GradientsCollector.n_devices
    gradients,       \* GradientsCollector._gradients
    grad_result,     \* the last GradientsCollector call and how it ended
    restorable,      \* the graph collection RESTORABLE, in registration order
    pc,              \* where global_vars_init_or_restore stands
    var_list,        \* its var_list, once defaulted (line 253)
    queue,           \* the entries of the sorted restorable still to process
    restored_vars,   \* its restored_vars: variable -> assignment
    restore_op,      \* the returned op: <<>> before it returns, <<op>> after
    resolved         \* the checkpoint names handed to resolve_checkpoint so far

outVars == <<n_devices, console_vars, summary_vars, output_vars, merge_op,
             tf_summaries, calls, finalised, result>>
gradVars == <<grad_devices, gradients, grad_result>>
restoreVars == <<restorable, pc, var_list, queue, restored_vars, restore_op,
                 resolved>>

vars == <<outVars, gradVars, restoreVars>>

----------------------------------------------------------------------------
(* Bounds of the model *)

MaxDevices == 2      \* n_devices ranges over 1..MaxDevices
MaxAdds == 3         \* add_to_collection calls per behaviour
MaxGrad == 2         \* gradient values range over 0..MaxGrad
MaxEntries == 2      \* entries registered in RESTORABLE per behaviour

----------------------------------------------------------------------------
(* Module constants, lines 19-28 *)

RESTORABLE == "NiftyNetObjectsToRestore"
NETWORK_OUTPUT == "niftynetout"
CONSOLE == "niftynetconsole"
TF_SUMMARIES == "summaries"
SUPPORTED_SUMMARY ==
    {"scalar", "histogram", "image",
     "image3_sagittal", "image3_coronal", "image3_axial"}

----------------------------------------------------------------------------
(* Values.  A tf.Tensor is a record [op, ids]: op "in" is a tensor handed  *)
(* in by the application (ids = <<i>>, i the number of the call that       *)
(* brought it), op "mean" is tf.reduce_mean over the tensors ids.  A value *)
(* that is no tf.Tensor has op "py".  A dict entry is either one tensor or *)
(* a Python list of tensors; both are kept in one record shape so they can *)
(* be compared: [isList, ts].                                              *)

InTensor(i) == [op |-> "in", ids |-> <<i>>]
NotATensor == [op |-> "py", ids |-> <<>>]
IsTensor(var) == var.op \in {"in", "mean"}

TensorEntry(t) == [isList |-> FALSE, ts |-> <<t>>]
ListEntry(s) == [isList |-> TRUE, ts |-> s]

\* a name is an optional string: <<>> is None, <<s>> the string s
NoName == <<>>

EmptyDict == [k \in {} |-> TensorEntry(NotATensor)]
DictPut(d, k, v) == [x \in DOMAIN d \cup {k} |-> IF x = k THEN v ELSE d[x]]

\* '{}_{}'.format(name, _uniq_id)
FormatName(name, uniq_id) == name \o "_" \o ToString(uniq_id)

\* the renaming loop left out: the name is used as it comes
UniqueNameNoScan(var_dict, name, uniq_id) == name

\* lines 130-134: the first of name, name_1, name_2, ... not in var_dict
RECURSIVE UniqueName(_, _, _)
UniqueName(var_dict, name, uniq_id) ==
    LET new_name == IF uniq_id = 0 THEN name ELSE FormatName(name, uniq_id)
    IN  IF new_name \in DOMAIN var_dict
        THEN UniqueName(var_dict, name, uniq_id + 1)
        ELSE new_name

\* _add_to_dict with the device-count test off by one (>= for >)
AddToDictOffByOne(var_dict, var, name, do_averaging, n_dev) ==
    IF ~IsTensor(var) \/ name = NoName
    THEN [d |-> var_dict, err |-> "AssertionError", ret |-> <<>>]
    ELSE IF do_averaging /\ n_dev > 1
    THEN IF name[1] \in DOMAIN var_dict /\ ~var_dict[name[1]].isList
         THEN [d |-> var_dict, err |-> "AttributeError", ret |-> <<>>]
         ELSE LET old == IF name[1] \in DOMAIN var_dict
                         THEN var_dict[name[1]].ts ELSE <<>>
                  nd == DictPut(var_dict, name[1], ListEntry(Append(old, var)))
              IN  IF Len(old) + 1 >= n_dev
                  THEN [d |-> nd, err |-> "ValueError", ret |-> <<>>]
                  ELSE [d |-> nd, err |-> "none", ret |-> name]
    ELSE LET new_name == UniqueName(var_dict, name[1], 0)
         IN  [d |-> DictPut(var_dict, new_name, TensorEntry(var)),
              err |-> "none", ret |-> <<new_name>>]

\* _add_to_dict averaging whenever asked to, whatever n_devices is
AddToDictAlwaysAveraging(var_dict, var, name, do_averaging, n_dev) ==
    IF ~IsTensor(var) \/ name = NoName
    THEN [d |-> var_dict, err |-> "AssertionError", ret |-> <<>>]
    ELSE IF do_averaging
    THEN IF name[1] \in DOMAIN var_dict /\ ~var_dict[name[1]].isList
         THEN [d |-> var_dict, err |-> "AttributeError", ret |-> <<>>]
         ELSE LET old == IF name[1] \in DOMAIN var_dict
                         THEN var_dict[name[1]].ts ELSE <<>>
                  appended == Append(old, var)
                  nd == DictPut(var_dict, name[1], ListEntry(appended))
              IN  IF Len(appended) > n_dev
                  THEN [d |-> nd, err |-> "ValueError", ret |-> <<>>]
                  ELSE [d |-> nd, err |-> "none", ret |-> name]
    ELSE LET new_name == UniqueName(var_dict, name[1], 0)
         IN  [d |-> DictPut(var_dict, new_name, TensorEntry(var)),
              err |-> "none", ret |-> <<new_name>>]

\* _add_to_dict starting a fresh list over a name that holds a single tensor
AddToDictReplacing(var_dict, var, name, do_averaging, n_dev) ==
    IF ~IsTensor(var) \/ name = NoName
    THEN [d |-> var_dict, err |-> "AssertionError", ret |-> <<>>]
    ELSE IF do_averaging /\ n_dev > 1
    THEN LET old == IF name[1] \in DOMAIN var_dict /\ var_dict[name[1]].isList
                    THEN var_dict[name[1]].ts ELSE <<>>
             appended == Append(old, var)
             nd == DictPut(var_dict, name[1], ListEntry(appended))
         IN  IF Len(appended) > n_dev
             THEN [d |-> nd, err |-> "ValueError", ret |-> <<>>]
             ELSE [d |-> nd, err |-> "none", ret |-> name]
    ELSE LET new_name == UniqueName(var_dict, name[1], 0)
         IN  [d |-> DictPut(var_dict, new_name, TensorEntry(var)),
              err |-> "none", ret |-> <<new_name>>]

\* _add_to_dict: the dict afterwards, the exception raised ("none" if none)
\* and the returned key (<<>> when it raised)
AddToDict(var_dict, var, name, do_averaging, n_dev) ==
    IF ~IsTensor(var)
    THEN [d |-> var_dict, err |-> "AssertionError", ret |-> <<>>]
    ELSE IF name = NoName
    THEN [d |-> var_dict, err |-> "AssertionError", ret |-> <<>>]
    ELSE IF do_averaging /\ n_dev > 1
    THEN \* var_list = var_dict.get(name, []); var_list.append(var)
         IF name[1] \in DOMAIN var_dict /\ ~var_dict[name[1]].isList
         THEN [d |-> var_dict, err |-> "AttributeError", ret |-> <<>>]
         ELSE LET old == IF name[1] \in DOMAIN var_dict
                         THEN var_dict[name[1]].ts ELSE <<>>
                  appended == Append(old, var)
                  nd == DictPut(var_dict, name[1], ListEntry(appended))
              IN  IF Len(appended) > n_dev
                  THEN [d |-> nd, err |-> "ValueError", ret |-> <<>>]
                  ELSE [d |-> nd, err |-> "none", ret |-> name]
    ELSE LET new_name == UniqueName(var_dict, name[1], 0)
         IN  [d |-> DictPut(var_dict, new_name, TensorEntry(var)),
              err |-> "none", ret |-> <<new_name>>]

\* a summary op created by tf.summary.* / image3_*: which function made it,
\* under which name, for which tensor
SummaryOp(kind, name, tensor) == [kind |-> kind, name |-> name, tensor |-> tensor]

\* look_up_operations(summary_type, SUPPORTED_SUMMARY): raises ValueError
\* when the key is not in the table
LookUpOperations(summary_type) ==
    IF summary_type \in SUPPORTED_SUMMARY THEN "none" ELSE "ValueError"

\* _add_to_tf_summary: [d, ops, err, ret] with ops the bag of summary ops
\* the call adds to the graph collection
AddToTfSummary(var_dict, var, name, do_averaging, summary_type, n_dev) ==
    LET r == AddToDict(var_dict, var, name, do_averaging, n_dev)
    IN  IF r.err # "none"
        THEN [d |-> r.d, ops |-> EmptyBag, err |-> r.err, ret |-> r.ret]
        ELSE LET values == r.d[r.ret[1]]
             IN  IF ~values.isList
                 THEN IF LookUpOperations(summary_type) # "none"
                      THEN [d |-> r.d, ops |-> EmptyBag,
                            err |-> LookUpOperations(summary_type), ret |-> <<>>]
                      ELSE [d |-> r.d,
                            ops |-> SetToBag({SummaryOp(summary_type, r.ret[1],
                                                        values.ts[1])}),
                            err |-> "none", ret |-> r.ret]
                 ELSE [d |-> r.d, ops |-> EmptyBag, err |-> "none", ret |-> r.ret]

\* tf.reduce_mean(values, name=var_name) over a list of tensors
RECURSIVE FlatIds(_)
FlatIds(s) == IF s = <<>> THEN <<>> ELSE Head(s).ids \o FlatIds(Tail(s))
ReduceMean(values) == [op |-> "mean", ids |-> FlatIds(values)]

\* the averaging pass skipping the lists of one tensor
AverageOnlyLongLists(var_dict) ==
    [var_name \in DOMAIN var_dict |->
        IF ~var_dict[var_name].isList \/ Len(var_dict[var_name].ts) < 2
        THEN var_dict[var_name]
        ELSE TensorEntry(ReduceMean(var_dict[var_name].ts))]

\* _average_variables_over_devices: the dict afterwards
AverageVariablesOverDevices(var_dict) ==
    [var_name \in DOMAIN var_dict |->
        IF ~var_dict[var_name].isList
        THEN var_dict[var_name]
        ELSE TensorEntry(ReduceMean(var_dict[var_name].ts))]

\* the averaging pass without its "continue": a summary op for every entry
AverageSummaryOpsForAll(var_dict, create_tf_summary_op) ==
    IF create_tf_summary_op
    THEN SetToBag({SummaryOp("scalar", var_name \o "_device_average_",
                             ReduceMean(var_dict[var_name].ts)) :
                   var_name \in DOMAIN var_dict})
    ELSE EmptyBag

\* ... and the summary ops it adds when create_tf_summary_op is set
AverageSummaryOps(var_dict, create_tf_summary_op) ==
    IF create_tf_summary_op
    THEN SetToBag({SummaryOp("scalar", var_name \o "_device_average_",
                             ReduceMean(var_dict[var_name].ts)) :
                   var_name \in {k \in DOMAIN var_dict : var_dict[k].isList}})
    ELSE EmptyBag

\* tf.summary.merge_all(key=TF_SUMMARIES): None when the collection is
\* empty, else one op merging the ops of the collection
MergeAll(collection) ==
    IF collection = EmptyBag THEN <<>> ELSE <<collection>>

----------------------------------------------------------------------------
(* OutputsCollector: inputs and actions *)

Names == {NoName, <<"">>, <<"a">>}
\* names of which one looks like a renaming of the other
DecoratedNames == {<<"a">>, <<"a_1">>}
Collections == {CONSOLE, NETWORK_OUTPUT, TF_SUMMARIES, "other"}
SummaryTypes == {"scalar", "bogus"}
Vars(i) == {InTensor(i), NotATensor}

\* the last call: which operation, the exception it raised ("none" if none)
\* the key _add_to_dict returned (<<>> if none)
\* and whether it repeats finalise_output_op with no call in between
NoCall == [op |-> "init", err |-> "none", ret |-> <<>>, again |-> FALSE]

OutputsCollectorInit(n) ==
    /\ n_devices = n
    /\ console_vars = EmptyDict
    /\ summary_vars = EmptyDict
    /\ output_vars = EmptyDict
    /\ merge_op = <<>>
    /\ tf_summaries = EmptyBag
    /\ calls = 0
    /\ finalised = FALSE
    /\ result = NoCall

Called(err, ret) == [op |-> "add", err |-> err, ret |-> ret, again |-> FALSE]

\* add_to_collection, lines 139-169
AddToCollection(var, name, average_over_devices, collection, summary_type) ==
    /\ calls < MaxAdds
    /\ calls' = calls + 1
    /\ UNCHANGED <<n_devices, merge_op, finalised, gradVars, restoreVars>>
    /\ IF collection = CONSOLE
       THEN /\ UNCHANGED <<summary_vars, output_vars, tf_summaries>>
            /\ LET r == AddToDict(console_vars, var, name,
                                  average_over_devices, n_devices)
               IN  /\ console_vars' = r.d
                   /\ result' = Called(r.err, r.ret)
       ELSE IF collection = NETWORK_OUTPUT
       THEN /\ UNCHANGED <<console_vars, summary_vars, tf_summaries>>
            /\ LET r == AddToDict(output_vars, var, name,
                                  average_over_devices, n_devices)
               IN  /\ output_vars' = r.d
                   /\ result' = Called(r.err, r.ret)
       ELSE IF collection = TF_SUMMARIES
       THEN /\ UNCHANGED <<console_vars, output_vars>>
            /\ LET r == AddToTfSummary(summary_vars, var, name,
                                       average_over_devices, summary_type,
                                       n_devices)
               IN  /\ summary_vars' = r.d
                   /\ tf_summaries' = tf_summaries (+) r.ops
                   /\ result' = Called(r.err, r.ret)
       ELSE /\ UNCHANGED <<console_vars, summary_vars, output_vars,
                           tf_summaries>>
            /\ result' = Called("ValueError", <<>>)

\* finalise_output_op, lines 188-199
FinaliseOutputOp ==
    /\ finalised' = TRUE
    /\ console_vars' = AverageVariablesOverDevices(console_vars)
    /\ output_vars' = AverageVariablesOverDevices(output_vars)
    /\ summary_vars' = AverageVariablesOverDevices(summary_vars)
    /\ tf_summaries' = tf_summaries (+) AverageSummaryOps(summary_vars, TRUE)
    /\ merge_op' = MergeAll(tf_summaries')
    /\ result' = [op |-> "finalise", err |-> "none", ret |-> <<>>,
                  again |-> (result.op = "finalise")]
    /\ UNCHANGED <<n_devices, calls, gradVars, restoreVars>>

\* what variables() returns: a mapping (<<dict>>) or a merged-summary handle
\* (<<the summary ops it merges>>), or the error it raises
Returned(mapping, handle) ==
    [err |-> "none", mapping |-> mapping, handle |-> handle]

\* variables() without its "is not None" test
VariablesNoNoneTest(collection) ==
    IF collection = CONSOLE THEN Returned(<<console_vars>>, <<>>)
    ELSE IF collection = TF_SUMMARIES THEN Returned(<<>>, merge_op)
    ELSE IF collection = NETWORK_OUTPUT THEN Returned(<<output_vars>>, <<>>)
    ELSE [err |-> "ValueError", mapping |-> <<>>, handle |-> <<>>]

\* variables, lines 171-186
Variables(collection) ==
    IF collection = CONSOLE THEN Returned(<<console_vars>>, <<>>)
    ELSE IF collection = TF_SUMMARIES
    THEN IF merge_op # <<>> THEN Returned(<<>>, merge_op)
         ELSE Returned(<<EmptyDict>>, <<>>)
    ELSE IF collection = NETWORK_OUTPUT THEN Returned(<<output_vars>>, <<>>)
    ELSE [err |-> "ValueError", mapping |-> <<>>, handle |-> <<>>]

\* summary_type is read for the summary bucket alone (lines 160-166)
SummaryTypesFor(collection) ==
    IF collection = TF_SUMMARIES THEN SummaryTypes ELSE {"scalar"}

Add ==
    \E var \in Vars(calls + 1), name \in Names, avg \in BOOLEAN,
       collection \in Collections :
        \E summary_type \in SummaryTypesFor(collection) :
            AddToCollection(var, name, avg, collection, summary_type)

AddDecorated ==
    \E var \in Vars(calls + 1), name \in DecoratedNames, avg \in BOOLEAN,
       collection \in Collections :
        \E summary_type \in SummaryTypesFor(collection) :
            AddToCollection(var, name, avg, collection, summary_type)

----------------------------------------------------------------------------
(* GradientsCollector *)

\* a gradient set, as optimiser.compute_gradients returns it: one gradient
\* per trainable variable, here two variables
GradientSets == {<<g1, g2>> : g1 \in 0..MaxGrad, g2 \in 0..MaxGrad}

NoGradCall == [op |-> "init", err |-> "none", ret |-> <<>>]

GradientsCollectorInit(n) ==
    /\ grad_devices = n
    /\ gradients = <<>>
    /\ grad_result = NoGradCall

\* _current_tower_id, lines 58-67
CurrentTowerId == Len(gradients)

\* the assertion off by one
GradAddOffByOne(grads) ==
    /\ IF CurrentTowerId <= grad_devices
       THEN /\ gradients' = Append(gradients, grads)
            /\ grad_result' = [op |-> "add", err |-> "none", ret |-> <<>>]
       ELSE /\ gradients' = gradients
            /\ grad_result' = [op |-> "add", err |-> "AssertionError",
                               ret |-> <<>>]
    /\ UNCHANGED <<grad_devices, outVars, restoreVars>>

\* GradientsCollector.add_to_collection, lines 43-56
GradAddToCollection(grads) ==
    /\ IF CurrentTowerId < grad_devices
       THEN /\ gradients' = Append(gradients, grads)
            /\ grad_result' = [op |-> "add", err |-> "none", ret |-> <<>>]
       ELSE /\ gradients' = gradients
            /\ grad_result' = [op |-> "add", err |-> "AssertionError",
                               ret |-> <<>>]
    /\ UNCHANGED <<grad_devices, outVars, restoreVars>>

\* util.average_gradients: per variable, the mean over the devices, kept
\* exact as the pair <<sum over the devices, number of devices>>
RECURSIVE SumAt(_, _)
SumAt(sets, i) ==
    IF sets = <<>> THEN 0 ELSE Head(sets)[i] + SumAt(Tail(sets), i)
AverageGradients(sets) ==
    [i \in 1..Len(sets[1]) |-> <<SumAt(sets, i), Len(sets)>>]

\* the property without its "assert self._gradients"
GradGradientsNoAssert ==
    /\ grad_result' = [op |-> "gradients", err |-> "none",
                       ret |-> IF gradients # <<>>
                               THEN AverageGradients(gradients) ELSE <<>>]
    /\ UNCHANGED <<grad_devices, gradients, outVars, restoreVars>>

\* the property emptying the list it has averaged
GradGradientsConsuming ==
    /\ IF gradients # <<>>
       THEN grad_result' = [op |-> "gradients", err |-> "none",
                            ret |-> AverageGradients(gradients)]
       ELSE grad_result' = [op |-> "gradients", err |-> "AssertionError",
                            ret |-> <<>>]
    /\ gradients' = <<>>
    /\ UNCHANGED <<grad_devices, outVars, restoreVars>>

\* the gradients property, lines 69-78
GradGradients ==
    /\ IF gradients # <<>>
       THEN grad_result' = [op |-> "gradients", err |-> "none",
                            ret |-> AverageGradients(gradients)]
       ELSE grad_result' = [op |-> "gradients", err |-> "AssertionError",
                            ret |-> <<>>]
    /\ UNCHANGED <<grad_devices, gradients, outVars, restoreVars>>

GradAdd == \E grads \in GradientSets : GradAddToCollection(grads)

----------------------------------------------------------------------------
(* global_vars_init_or_restore *)

\* strings, character by character
CharAt(s, i) == SubSeq(s, i, i)
Ord(c) ==
    CASE c = "/" -> 47 [] c = "0" -> 48 [] c = ":" -> 58 [] c = "A" -> 65
      [] c = "B" -> 66 [] c = "X" -> 88 [] c = "g" -> 103 [] c = "v" -> 118
      [] c = "w" -> 119

\* a < b for Python strings: by code point, a proper prefix first
RECURSIVE StrLess(_, _)
StrLess(a, b) ==
    IF b = "" THEN FALSE
    ELSE IF a = "" THEN TRUE
    ELSE IF CharAt(a, 1) = CharAt(b, 1)
         THEN StrLess(SubSeq(a, 2, Len(a)), SubSeq(b, 2, Len(b)))
         ELSE Ord(CharAt(a, 1)) < Ord(CharAt(b, 1))

StartsWith(s, prefix) ==
    Len(prefix) <= Len(s) /\ SubSeq(s, 1, Len(prefix)) = prefix

\* str.replace(old, new): every non-overlapping occurrence, left to right
RECURSIVE PyReplace(_, _, _)
PyReplace(s, old, new) ==
    IF old = ""
    THEN IF s = "" THEN new
         ELSE new \o CharAt(s, 1)
                  \o PyReplace(SubSeq(s, 2, Len(s)), old, new)
    ELSE IF Len(s) < Len(old) THEN s
    ELSE IF StartsWith(s, old)
         THEN new \o PyReplace(SubSeq(s, Len(old) + 1, Len(s)), old, new)
         ELSE CharAt(s, 1) \o PyReplace(SubSeq(s, 2, Len(s)), old, new)

\* the position of the last "/" of s, 0 when there is none
RECURSIVE LastSlash(_, _)
LastSlash(s, i) ==
    IF i = 0 THEN 0
    ELSE IF CharAt(s, i) = "/" THEN i ELSE LastSlash(s, i - 1)

\* line 261: rename = lambda x: x.replace(scope, checkpoint_scope)
\*                               .replace(':0', '')
Rename(x, scope, checkpoint_scope) ==
    PyReplace(PyReplace(x, scope, checkpoint_scope), ":0", "")

\* lines 267-272: restore_initializer(checkpoint_name, var_name,
\* checkpoint_subscope) for a renamed variable; the sub-scope is <<>> (None)
\* when the name holds no "/"
Initializer(checkpoint_name, renamed) ==
    LET cut == LastSlash(renamed, Len(renamed))
    IN  IF cut > 0
        THEN [checkpoint_name |-> checkpoint_name,
              var_name |-> SubSeq(renamed, cut + 1, Len(renamed)),
              checkpoint_subscope |-> <<SubSeq(renamed, 1, cut - 1)>>]
        ELSE [checkpoint_name |-> checkpoint_name,
              var_name |-> renamed,
              checkpoint_subscope |-> <<>>]

\* the graph: tf.global_variables(), each variable by its name
GlobalVariables == {"A/B/w:0", "A/A/v:0", "g:0"}

\* tf.get_collection(tf.GraphKeys.GLOBAL_VARIABLES, scope=scope): the
\* variables whose name the scope matches at its start (the scopes of the
\* model hold no regular-expression metacharacter)
VariablesInScope(scope) == {v \in GlobalVariables : StartsWith(v, scope)}

\* the checkpoints on disk: what list_variables gives for each file
CheckpointNames == {"ck1", "ck2", "gone"}
CheckpointExists(checkpoint_name) == checkpoint_name # "gone"
ListVariables(checkpoint_name) ==
    IF checkpoint_name = "ck1" THEN {"A/B/w", "A/A/v", "X/w", "g"}
    ELSE IF checkpoint_name = "ck2" THEN {"X/B/w", "X/X/v", "A/w", "X"}
    ELSE {}

Entry(scope, checkpoint_name, checkpoint_scope) ==
    [scope |-> scope, checkpoint_name |-> checkpoint_name,
     checkpoint_scope |-> checkpoint_scope]

\* the insertion of a sort by descending scope
RECURSIVE InsertByScopeDescending(_, _)
InsertByScopeDescending(sorted, e) ==
    IF sorted = <<>> THEN <<e>>
    ELSE IF StrLess(Head(sorted).scope, e.scope)
         THEN <<e>> \o sorted
         ELSE <<Head(sorted)>> \o InsertByScopeDescending(Tail(sorted), e)

\* the entries left in registration order
SortedByScopeUnsorted(entries) == entries

\* line 254: sorted(..., key=lambda x: x[0]), a stable sort by scope
RECURSIVE InsertByScope(_, _)
InsertByScope(sorted, e) ==
    IF sorted = <<>> THEN <<e>>
    ELSE IF StrLess(e.scope, Head(sorted).scope)
         THEN <<e>> \o sorted
         ELSE <<Head(sorted)>> \o InsertByScope(Tail(sorted), e)
RECURSIVE SortedByScope(_)
SortedByScope(entries) ==
    IF entries = <<>> THEN <<>>
    ELSE InsertByScope(SortedByScope(SubSeq(entries, 1, Len(entries) - 1)),
                       entries[Len(entries)])

\* to_restore without its test against the names the checkpoint lists
ToRestoreIgnoringListing(e, vl) ==
    {v \in VariablesInScope(e.scope) : v \in vl}

\* lines 262-263: the variables of the scope that are in var_list and whose
\* renamed name the checkpoint file lists
ToRestore(e, vl) ==
    {v \in VariablesInScope(e.scope) :
        /\ v \in vl
        /\ Rename(v, e.scope, e.checkpoint_scope)
             \in ListVariables(e.checkpoint_name)}

\* the loop without its "if var in restored_vars: continue"
RestoreFromOverwriting(restored, e, vl) ==
    [v \in DOMAIN restored \cup ToRestore(e, vl) |->
        IF v \in ToRestore(e, vl)
        THEN Initializer(e.checkpoint_name,
                         Rename(v, e.scope, e.checkpoint_scope))
        ELSE restored[v]]

\* lines 264-274: restored_vars after the loop over to_restore
RestoreFrom(restored, e, vl) ==
    [v \in DOMAIN restored \cup ToRestore(e, vl) |->
        IF v \in DOMAIN restored
        THEN restored[v]
        ELSE Initializer(e.checkpoint_name,
                         Rename(v, e.scope, e.checkpoint_scope))]

\* the initialiser list without its "if v not in restored_vars"
InitOthersUnfiltered(vl, restored) == vl

\* lines 275-276: the variables handed to tf.variables_initializer
InitOthers(vl, restored) == {v \in vl : v \notin DOMAIN restored}

\* line 277: tf.group(init_others, *restored_vars.values())
RestoreOp(vl, restored) ==
    [init_others |-> InitOthers(vl, restored),
     assigns |-> {[var |-> v, value |-> restored[v]] : v \in DOMAIN restored}]

NoRestored == [v \in {} |-> Initializer("", "")]

RestoreInit ==
    /\ restorable = <<>>
    /\ pc = "build"
    /\ var_list = {}
    /\ queue = <<>>
    /\ restored_vars = NoRestored
    /\ restore_op = <<>>
    /\ resolved = <<>>

Scopes == {"A", "A/B", "g"}
CheckpointScopes == {"A", "X"}

\* graph construction adds (scope, checkpoint_name, checkpoint_scope) to
\* the RESTORABLE collection
Register(scope, checkpoint_name, checkpoint_scope) ==
    /\ pc = "build"
    /\ Len(restorable) < MaxEntries
    /\ restorable' =
          Append(restorable, Entry(scope, checkpoint_name, checkpoint_scope))
    /\ UNCHANGED <<pc, var_list, queue, restored_vars, restore_op, resolved,
                   outVars, gradVars>>

\* lines 252-255: var_list_arg is <<>> for None, <<set>> for a list
RestoreBegin(var_list_arg) ==
    /\ pc = "build"
    /\ pc' = "loop"
    /\ var_list' = IF var_list_arg = <<>> THEN GlobalVariables
                   ELSE var_list_arg[1]
    /\ queue' = SortedByScope(restorable)
    /\ restored_vars' = NoRestored
    /\ resolved' = <<>>
    /\ UNCHANGED <<restorable, restore_op, outVars, gradVars>>

\* the loop resolving a checkpoint only for a scope that holds a variable
\* of var_list
RestoreEntryResolvingLate ==
    /\ pc = "loop"
    /\ queue # <<>>
    /\ IF VariablesInScope(Head(queue).scope) \cap var_list = {}
       THEN /\ queue' = Tail(queue)
            /\ UNCHANGED <<restored_vars, pc, resolved>>
       ELSE /\ resolved' = Append(resolved, Head(queue).checkpoint_name)
            /\ IF CheckpointExists(Head(queue).checkpoint_name)
               THEN /\ restored_vars' =
                          RestoreFrom(restored_vars, Head(queue), var_list)
                    /\ queue' = Tail(queue)
                    /\ pc' = pc
               ELSE /\ pc' = "failed"
                    /\ UNCHANGED <<restored_vars, queue>>
    /\ UNCHANGED <<restorable, var_list, restore_op, outVars, gradVars>>

\* lines 256-274: one pass of the loop over restorable; resolve_checkpoint
\* (line 259) is called before the variables are matched, nothing catches
\* what it raises when the checkpoint is not there
RestoreEntry ==
    /\ pc = "loop"
    /\ queue # <<>>
    /\ resolved' = Append(resolved, Head(queue).checkpoint_name)
    /\ IF CheckpointExists(Head(queue).checkpoint_name)
       THEN /\ restored_vars' = RestoreFrom(restored_vars, Head(queue), var_list)
            /\ queue' = Tail(queue)
            /\ pc' = pc
       ELSE /\ pc' = "failed"
            /\ UNCHANGED <<restored_vars, queue>>
    /\ UNCHANGED <<restorable, var_list, restore_op, outVars, gradVars>>

\* lines 275-278
RestoreFinish ==
    /\ pc = "loop"
    /\ queue = <<>>
    /\ pc' = "done"
    /\ restore_op' = <<RestoreOp(var_list, restored_vars)>>
    /\ UNCHANGED <<restorable, var_list, queue, restored_vars, resolved,
                   outVars, gradVars>>

RegisterEntry ==
    \E scope \in Scopes, checkpoint_name \in CheckpointNames,
       checkpoint_scope \in CheckpointScopes :
        Register(scope, checkpoint_name, checkpoint_scope)

Begin ==
    \E var_list_arg \in {<<>>} \cup {<<s>> : s \in SUBSET GlobalVariables} :
        RestoreBegin(var_list_arg)

----------------------------------------------------------------------------
(* The specifications *)

InitOutputs ==
    /\ \E n \in 1..MaxDevices : OutputsCollectorInit(n)
    /\ GradientsCollectorInit(1)
    /\ RestoreInit

NextOutputs == Add \/ FinaliseOutputOp

SpecOutputs == InitOutputs /\ [][NextOutputs]_vars

\* the OutputsCollector again, fed names that clash with its renamings
NextNaming == AddDecorated \/ FinaliseOutputOp

SpecNaming == InitOutputs /\ [][NextNaming]_vars

InitGradients ==
    /\ OutputsCollectorInit(1)
    /\ \E n \in 1..MaxDevices : GradientsCollectorInit(n)
    /\ RestoreInit

NextGradients == GradAdd \/ GradGradients

SpecGradients == InitGradients /\ [][NextGradients]_vars

InitRestore ==
    /\ OutputsCollectorInit(1)
    /\ GradientsCollectorInit(1)
    /\ RestoreInit

NextRestore == RegisterEntry \/ Begin \/ RestoreEntry \/ RestoreFinish

SpecRestore == InitRestore /\ [][NextRestore]_vars

----------------------------------------------------------------------------
(* OutputsCollector: properties *)

Buckets == {CONSOLE, NETWORK_OUTPUT, TF_SUMMARIES}
Bucket(collection) ==
    IF collection = CONSOLE THEN console_vars
    ELSE IF collection = NETWORK_OUTPUT THEN output_vars
    ELSE summary_vars
BucketAfter(collection) ==
    IF collection = CONSOLE THEN console_vars'
    ELSE IF collection = NETWORK_OUTPUT THEN output_vars'
    ELSE summary_vars'

\* C4: in every reachable state, also the one a failed add leaves behind,
\* every list-valued entry of every bucket holds at most n_devices tensors.
C4_ListsWithinDeviceCount ==
    \A b \in Buckets : \A k \in DOMAIN Bucket(b) :
        Bucket(b)[k].isList => Len(Bucket(b)[k].ts) <= n_devices

\* C5: with average_over_devices and n_devices = n > 1, an add of a name
\* whose key is absent or holds a list of fewer than n tensors succeeds and
\* appends the tensor to the list under that same key (arrival order, no
\* renaming); an add of a name whose list already holds n tensors fails
\* with ValueError (the collision error).
C5_AveragedAddsAccumulate ==
    [][\A var \in {InTensor(calls + 1)}, b \in Buckets,
         name \in Names \ {NoName} :
         \A st \in SummaryTypesFor(b) :
          ( /\ n_devices > 1
            /\ result'.op = "add"
            /\ name[1] \in DOMAIN Bucket(b) => Bucket(b)[name[1]].isList
            /\ AddToCollection(var, name, TRUE, b, st) )
          => LET old == IF name[1] \in DOMAIN Bucket(b)
                        THEN Bucket(b)[name[1]].ts ELSE <<>>
             IN  IF Len(old) < n_devices
                 THEN /\ result'.err = "none"
                      /\ result'.ret = name
                      /\ DOMAIN BucketAfter(b) = DOMAIN Bucket(b) \cup {name[1]}
                      /\ BucketAfter(b)[name[1]] = ListEntry(Append(old, var))
                 ELSE result'.err = "ValueError"
      ]_vars

\* C5 witness: n_devices + 1 averaged adds of one name were made; the last
\* one raised ValueError.
C5_Witness ==
    /\ n_devices > 1
    /\ result.op = "add" /\ result.err = "ValueError"
    /\ "a" \in DOMAIN output_vars
    /\ output_vars["a"].isList
    /\ Len(output_vars["a"].ts) = n_devices + 1

\* C6: an add to the summary bucket with a summary type outside
\* SUPPORTED_SUMMARY raises an error and leaves the console, output and
\* summary mappings as they were, whether or not average_over_devices is set.
C6_UnsupportedKindAddsNothing ==
    [][\A var \in Vars(calls + 1), name \in Names, avg \in BOOLEAN,
         st \in SummaryTypes \ SUPPORTED_SUMMARY :
          ( /\ IsTensor(var)
            /\ name # NoName
            /\ AddToCollection(var, name, avg, TF_SUMMARIES, st) )
          => /\ result'.err # "none"
             /\ UNCHANGED <<console_vars, output_vars, summary_vars>>
      ]_vars

\* the keys name, name_1, name_2, ... in scanning order
KeyAt(name, i) == IF i = 0 THEN name ELSE name \o "_" \o ToString(i)

\* C7: a non-averaged add of a name stores the tensor under the first key
\* of name, name_1, name_2, ... that the bucket does not hold yet, returns
\* that key, and leaves every other key of the bucket as it was.
C7_FirstUnusedKey ==
    [][\A var \in {InTensor(calls + 1)}, b \in Buckets,
         name \in (Names \cup DecoratedNames) \ {NoName}, avg \in BOOLEAN :
          ( /\ ~avg \/ n_devices = 1
            /\ result'.op = "add"
            /\ AddToCollection(var, name, avg, b, "scalar") )
          => \E i \in 0..Cardinality(DOMAIN Bucket(b)) :
                /\ KeyAt(name[1], i) \notin DOMAIN Bucket(b)
                /\ \A j \in 0..(i - 1) : KeyAt(name[1], j) \in DOMAIN Bucket(b)
                /\ result'.err = "none"
                /\ result'.ret = <<KeyAt(name[1], i)>>
                /\ DOMAIN BucketAfter(b)
                      = DOMAIN Bucket(b) \cup {KeyAt(name[1], i)}
                /\ BucketAfter(b)[KeyAt(name[1], i)] = TensorEntry(var)
                /\ \A k \in DOMAIN Bucket(b) : BucketAfter(b)[k] = Bucket(b)[k]
      ]_vars

\* C7 witness: three non-averaged adds of "a" to the empty console bucket
\* left the keys a, a_1, a_2 with the tensors of the first, second and third
\* add.
C7_Witness ==
    /\ DOMAIN console_vars = {"a", "a_1", "a_2"}
    /\ console_vars["a"] = TensorEntry(InTensor(1))
    /\ console_vars["a_1"] = TensorEntry(InTensor(2))
    /\ console_vars["a_2"] = TensorEntry(InTensor(3))

\* C7 witness of a gap: "a_1" was taken before "a" was added twice, so the
\* second "a" went to a_2.
C7_WitnessGap ==
    /\ DOMAIN output_vars = {"a", "a_1", "a_2"}
    /\ output_vars["a_1"] = TensorEntry(InTensor(1))
    /\ output_vars["a_2"] = TensorEntry(InTensor(3))

\* C8: an add whose name is empty or None, or whose var is no tf.Tensor,
\* raises an error and leaves every bucket unchanged, and no bucket ever
\* holds the empty name as a key.
C8_BadNameOrTensorRejected ==
    [][/\ \A var \in Vars(calls + 1), name \in Names, avg \in BOOLEAN,
            b \in Buckets, st \in SummaryTypes :
             ( /\ name \in {NoName, <<"">>} \/ ~IsTensor(var)
               /\ AddToCollection(var, name, avg, b, st) )
             => /\ result'.err # "none"
                /\ UNCHANGED <<console_vars, output_vars, summary_vars>>
       /\ \A b \in Buckets : "" \notin DOMAIN BucketAfter(b)
      ]_vars

\* the tensors of a list, by the call that brought each
ListIds(ts) == [i \in 1..Len(ts) |-> ts[i].ids[1]]

\* C9: finalise_output_op keeps the key set of each bucket, leaves every
\* single-tensor entry as it was, and replaces every list by the mean of
\* exactly the tensors of that list, so that no list is left in any bucket.
C9_FinaliseAveragesLists ==
    [][result'.op = "finalise" =>
        \A b \in Buckets :
          /\ DOMAIN BucketAfter(b) = DOMAIN Bucket(b)
          /\ \A k \in DOMAIN Bucket(b) :
                /\ ~BucketAfter(b)[k].isList
                /\ ~Bucket(b)[k].isList => BucketAfter(b)[k] = Bucket(b)[k]
                /\ Bucket(b)[k].isList =>
                      /\ Len(BucketAfter(b)[k].ts) = 1
                      /\ BucketAfter(b)[k].ts[1].op = "mean"
                      /\ BucketAfter(b)[k].ts[1].ids = ListIds(Bucket(b)[k].ts)
      ]_vars

\* C9 witness: finalise has just replaced a two-tensor list under "a" in
\* the summary bucket by its mean, next to a single tensor it left alone.
C9_Witness ==
    /\ result.op = "finalise"
    /\ "a" \in DOMAIN summary_vars
    /\ summary_vars["a"] = TensorEntry([op |-> "mean", ids |-> <<1, 2>>])
    /\ \E k \in DOMAIN summary_vars : summary_vars[k].ts[1].op = "in"

\* C10: a finalise_output_op that follows a finalise_output_op with no
\* add in between changes neither the buckets, nor the summary ops of the
\* graph, nor the merged-summary handle.
C10_FinaliseIdempotent ==
    [][(result.op = "finalise" /\ result'.op = "finalise") =>
         UNCHANGED <<console_vars, output_vars, summary_vars,
                     tf_summaries, merge_op>>
      ]_vars

\* C10 witness: finalise has run twice in a row on a collector that holds
\* an averaged entry and summary ops.
C10_Witness ==
    /\ result.op = "finalise" /\ result.again
    /\ merge_op # <<>>
    /\ \E k \in DOMAIN summary_vars : summary_vars[k].ts[1].op = "mean"
    /\ \E k \in DOMAIN console_vars : console_vars[k].ts[1].op = "mean"

\* C11 as stated: variables(TF_SUMMARIES) returns the empty mapping in every
\* state in which finalise_output_op has not run, and a merged-summary
\* handle in every state after it has run, whatever was registered.
C11_HandleAfterEveryFinalise ==
    /\ ~finalised => Variables(TF_SUMMARIES) = Returned(<<EmptyDict>>, <<>>)
    /\ finalised => Variables(TF_SUMMARIES).handle # <<>>

\* C11 amended: variables(TF_SUMMARIES) returns the empty mapping in every
\* state in which finalise_output_op has not run; a finalise_output_op that
\* finds at least one summary op in the graph makes it return the handle
\* merging exactly those ops, one that finds none makes it return the empty
\* mapping; an add leaves what it returns as it was; and variables(CONSOLE)
\* and variables(NETWORK_OUTPUT) return the live bucket mappings.
C11_HandleOnceSummariesMerged ==
    /\ [](/\ ~finalised =>
                Variables(TF_SUMMARIES) = Returned(<<EmptyDict>>, <<>>)
          /\ Variables(CONSOLE).mapping = <<console_vars>>
          /\ Variables(NETWORK_OUTPUT).mapping = <<output_vars>>)
    /\ [][/\ result'.op = "finalise" =>
               Variables(TF_SUMMARIES)' =
                   IF tf_summaries' = EmptyBag
                   THEN Returned(<<EmptyDict>>, <<>>)
                   ELSE Returned(<<>>, <<tf_summaries'>>)
          /\ result'.op = "add" =>
               Variables(TF_SUMMARIES)' = Variables(TF_SUMMARIES)
         ]_vars

\* C11 witness: finalise_output_op has run on a collector that holds a
\* console entry and no summary, and variables(TF_SUMMARIES) returns the
\* empty mapping.
C11_Witness ==
    /\ result.op = "finalise"
    /\ console_vars # EmptyDict
    /\ tf_summaries = EmptyBag
    /\ Variables(TF_SUMMARIES) = Returned(<<EmptyDict>>, <<>>)

\* C17: an add_to_collection, wherever it falls among other adds and
\* finalise_output_op calls, removes no key of any bucket, leaves every
\* single tensor as it was and every list a prefix of the list afterwards;
\* an averaged add (n_devices > 1) of a name held as a single tensor raises
\* and replaces nothing; a non-averaged add of a name held as a list is
\* stored under a renamed key.
C17_AddsNeverOverwrite ==
    [][/\ result'.op = "add" =>
            \A b \in Buckets : \A k \in DOMAIN Bucket(b) :
               /\ k \in DOMAIN BucketAfter(b)
               /\ BucketAfter(b)[k].isList = Bucket(b)[k].isList
               /\ Len(BucketAfter(b)[k].ts) >= Len(Bucket(b)[k].ts)
               /\ SubSeq(BucketAfter(b)[k].ts, 1, Len(Bucket(b)[k].ts))
                     = Bucket(b)[k].ts
       /\ \A b \in Buckets, name \in Names \ {NoName}, avg \in BOOLEAN :
            ( /\ result'.op = "add"
              /\ name[1] \in DOMAIN Bucket(b)
              /\ Bucket(b)[name[1]].isList = ~avg
              /\ avg => n_devices > 1
              /\ AddToCollection(InTensor(calls + 1), name, avg, b, "scalar") )
            => IF avg
               THEN /\ result'.err = "AttributeError"
                    /\ BucketAfter(b) = Bucket(b)
               ELSE /\ result'.err = "none"
                    /\ result'.ret # name
                    /\ result'.ret[1] \notin DOMAIN Bucket(b)
                    /\ BucketAfter(b)[result'.ret[1]]
                          = TensorEntry(InTensor(calls + 1))
                    /\ BucketAfter(b)[name[1]] = Bucket(b)[name[1]]
      ]_vars

\* C17 witness: with two devices, the console bucket holds "a" as the
\* single tensor of the first add, and the averaged add of "a" that came
\* after it has just raised AttributeError.
C17_Witness ==
    /\ n_devices > 1
    /\ result.op = "add" /\ result.err = "AttributeError"
    /\ calls = 2
    /\ DOMAIN console_vars = {"a"}
    /\ console_vars["a"] = TensorEntry(InTensor(1))
    /\ output_vars = EmptyDict /\ summary_vars = EmptyDict


\* C19: with n_devices = 1, an add with average_over_devices set does what
\* a non-averaged add does: it never raises for a name already held, it
\* stores the single tensor under the first unused key of name, name_1, ...
\* (and, in the summary bucket, creates the summary op for it at once); no
\* bucket ever holds a list, and finalise_output_op leaves every bucket and
\* the summary ops as they were.
C19_SingleDeviceAveragingIsPlainAdd ==
    [][n_devices = 1 =>
        /\ \A b \in Buckets, name \in DecoratedNames :
             ( /\ result'.op = "add"
               /\ AddToCollection(InTensor(calls + 1), name, TRUE, b, "scalar") )
             => \E i \in 0..Cardinality(DOMAIN Bucket(b)) :
                   /\ KeyAt(name[1], i) \notin DOMAIN Bucket(b)
                   /\ \A j \in 0..(i - 1) :
                         KeyAt(name[1], j) \in DOMAIN Bucket(b)
                   /\ result'.err = "none"
                   /\ result'.ret = <<KeyAt(name[1], i)>>
                   /\ BucketAfter(b) =
                         DictPut(Bucket(b), KeyAt(name[1], i),
                                 TensorEntry(InTensor(calls + 1)))
                   /\ tf_summaries' =
                         IF b = TF_SUMMARIES
                         THEN tf_summaries (+)
                              SetToBag({SummaryOp("scalar", KeyAt(name[1], i),
                                                  InTensor(calls + 1))})
                         ELSE tf_summaries
        /\ \A b \in Buckets : \A k \in DOMAIN BucketAfter(b) :
              ~BucketAfter(b)[k].isList
        /\ result'.op = "finalise" =>
              UNCHANGED <<console_vars, output_vars, summary_vars, tf_summaries>>
      ]_vars

\* C19 witness: a one-device collector took two adds of "a" to the summary
\* bucket, holds them as single tensors under a and a_1 with one summary op
\* each, and finalise_output_op has run.
C19_Witness ==
    /\ n_devices = 1
    /\ result.op = "finalise"
    /\ DOMAIN summary_vars = {"a", "a_1"}
    /\ summary_vars["a"] = TensorEntry(InTensor(1))
    /\ summary_vars["a_1"] = TensorEntry(InTensor(2))
    /\ tf_summaries = SetToBag({SummaryOp("scalar", "a", InTensor(1)),
                                SummaryOp("scalar", "a_1", InTensor(2))})

----------------------------------------------------------------------------
(* GradientsCollector: properties *)

\* C3: with n_devices = k, an add made while fewer than k gradient sets are
\* collected succeeds and appends its set; every add made once k are
\* collected fails and leaves the list as it was; so the list never holds
\* more than n_devices sets.
C3_AtMostOneAddPerDevice ==
    [][/\ grad_result'.op = "add" /\ Len(gradients) < grad_devices =>
            /\ grad_result'.err = "none"
            /\ Len(gradients') = Len(gradients) + 1
            /\ SubSeq(gradients', 1, Len(gradients)) = gradients
       /\ grad_result'.op = "add" /\ Len(gradients) >= grad_devices =>
            /\ grad_result'.err # "none"
            /\ gradients' = gradients
       /\ Len(gradients') <= grad_devices
      ]_vars

\* C3 witness: a collector for two or more devices is full and the add
\* after the last device's has just failed.
C3_Witness ==
    /\ grad_devices > 1
    /\ Len(gradients) = grad_devices
    /\ grad_result.op = "add"
    /\ grad_result.err = "AssertionError"

\* C14: reading gradients while no add has succeeded fails with the
\* assertion error and leaves the collector as it was, so that the add
\* that follows still succeeds as a first add; a read made once a set is
\* collected succeeds.
C14_EmptyReadFailsAndKeepsState ==
    [][/\ grad_result'.op = "gradients" =>
            /\ UNCHANGED <<grad_devices, gradients>>
            /\ gradients = <<>> =>
                  /\ grad_result'.err = "AssertionError"
                  /\ grad_result'.ret = <<>>
            /\ gradients # <<>> => grad_result'.err = "none"
       /\ ( /\ grad_result.op = "gradients" /\ grad_result.err # "none"
            /\ grad_result'.op = "add" ) =>
            /\ grad_result'.err = "none"
            /\ Len(gradients') = 1
      ]_vars

\* C14 witness: a read of the empty collector has just failed.
C14_Witness ==
    /\ grad_result.op = "gradients"
    /\ grad_result.err = "AssertionError"
    /\ gradients = <<>>
    /\ grad_devices > 1

\* the sum of the i-th gradient over the first j collected sets
RECURSIVE SumUpTo(_, _)
SumUpTo(i, j) == IF j = 0 THEN 0 ELSE SumUpTo(i, j - 1) + gradients[j][i]

\* C15: with n_devices = k, once k sets are collected a read returns, for
\* each variable, the mean over exactly those k sets (their sum over k);
\* a read changes nothing of the collector, and a read that follows a read
\* returns the same.
C15_ReadAveragesCollectedSets ==
    [][/\ (grad_result'.op = "gradients" /\ Len(gradients) = grad_devices) =>
            /\ grad_result'.err = "none"
            /\ DOMAIN grad_result'.ret = 1..2
            /\ \A i \in 1..2 :
                  grad_result'.ret[i] = <<SumUpTo(i, grad_devices), grad_devices>>
       /\ grad_result'.op = "gradients" => gradients' = gradients
       /\ (grad_result.op = "gradients" /\ grad_result'.op = "gradients") =>
            grad_result' = grad_result
      ]_vars

\* C15 witness: two devices gave different gradient sets and the read
\* returned their element-wise mean.
C15_Witness ==
    /\ grad_devices = 2
    /\ gradients = << <<0, 1>>, <<2, 1>> >>
    /\ grad_result = [op |-> "gradients", err |-> "none",
                      ret |-> << <<2, 2>>, <<2, 2>> >>]


----------------------------------------------------------------------------
(* global_vars_init_or_restore: properties *)

\* entry e offers a restoration of variable v: v is in e's scope and in
\* var_list, and e's checkpoint lists v's checkpoint-relative name
Matches(e, v) ==
    /\ StartsWith(v, e.scope)
    /\ v \in var_list
    /\ Rename(v, e.scope, e.checkpoint_scope)
         \in ListVariables(e.checkpoint_name)

\* the assignment entry e makes for variable v
AssignmentOf(e, v) ==
    Initializer(e.checkpoint_name, Rename(v, e.scope, e.checkpoint_scope))

Registered == {restorable[i] : i \in DOMAIN restorable}

\* C1: the entries are processed in ascending order of scope; a variable
\* recorded in restored_vars keeps its assignment for the rest of the run;
\* and at the end each restored variable holds the assignment of an entry
\* that matches it and whose scope no other matching entry sorts before
\* (so with entries for "A" and "A/B" both listing A/B/w, A's is used).
C1_FirstClaimWins ==
    [][/\ \A v \in DOMAIN restored_vars :
            /\ v \in DOMAIN restored_vars'
            /\ restored_vars'[v] = restored_vars[v]
       /\ \A i, j \in DOMAIN queue' :
            i < j => ~StrLess(queue'[j].scope, queue'[i].scope)
       /\ pc' = "done" =>
            \A v \in DOMAIN restored_vars' :
               \E e \in Registered :
                  /\ Matches(e, v)
                  /\ restored_vars'[v] = AssignmentOf(e, v)
                  /\ \A e2 \in Registered :
                        Matches(e2, v) => ~StrLess(e2.scope, e.scope)
      ]_vars

\* C1 witness: "A/B" was registered before "A", both checkpoints list
\* A/B/w under their mapping, and the run ended with A/B/w restored.
C1_Witness ==
    /\ pc = "done"
    /\ Len(restorable) = 2
    /\ restorable[1].scope = "A/B" /\ restorable[2].scope = "A"
    /\ Matches(restorable[1], "A/B/w:0")
    /\ Matches(restorable[2], "A/B/w:0")
    /\ restored_vars["A/B/w:0"] = AssignmentOf(restorable[2], "A/B/w:0")
    /\ restored_vars["A/B/w:0"] # AssignmentOf(restorable[1], "A/B/w:0")

\* C2: once global_vars_init_or_restore has returned, every variable of
\* var_list is either assigned from a checkpoint (exactly one assignment)
\* or freshly initialised, never both, never neither; a variable no entry
\* matches is freshly initialised; nothing outside var_list is touched.
C2_RestoredOrInitialised ==
    pc = "done" =>
        LET op == restore_op[1]
            assigned == {a.var : a \in op.assigns}
        IN  /\ op.init_others \cup assigned = var_list
            /\ op.init_others \cap assigned = {}
            /\ \A v \in assigned :
                  Cardinality({a \in op.assigns : a.var = v}) = 1
            /\ \A v \in var_list :
                  (\A e \in Registered : ~Matches(e, v))
                      => v \in op.init_others

\* C2 witness: the run ended with one variable of var_list restored, one
\* freshly initialised, and one variable of the graph outside var_list.
C2_Witness ==
    /\ pc = "done"
    /\ restore_op[1].init_others # {}
    /\ restore_op[1].assigns # {}
    /\ var_list # GlobalVariables

\* C12: when the checkpoint of a registered entry does not resolve,
\* global_vars_init_or_restore never returns and builds no combined op; it
\* stops at the first call of resolve_checkpoint that fails, with what that
\* call raised; resolve_checkpoint is called once per entry, in sorted
\* order, also for an entry whose scope holds no variable of var_list.
C12_MissingCheckpointIsFatal ==
    /\ (\E e \in Registered : ~CheckpointExists(e.checkpoint_name))
          => pc # "done" /\ restore_op = <<>>
    /\ pc = "failed" =>
          /\ restore_op = <<>>
          /\ resolved # <<>>
          /\ ~CheckpointExists(resolved[Len(resolved)])
    /\ Len(resolved) <= Len(restorable)
    /\ \A i \in DOMAIN resolved :
          /\ resolved[i] = SortedByScope(restorable)[i].checkpoint_name
          /\ i < Len(resolved) => CheckpointExists(resolved[i])
    /\ pc = "loop" => Len(resolved) = Len(restorable) - Len(queue)
    /\ pc = "done" => Len(resolved) = Len(restorable)

\* C12 witness: the entry for "A" restored a variable, then the entry for
\* "g", whose scope holds no variable of var_list, failed to resolve.
C12_Witness ==
    /\ pc = "failed"
    /\ restore_op = <<>>
    /\ Len(resolved) = 2
    /\ Head(queue).scope = "g"
    /\ VariablesInScope("g") \cap var_list = {}
    /\ DOMAIN restored_vars # {}

\* the position of the first ":" of s from position i on, Len(s) + 1 when
\* there is none
RECURSIVE FirstColon(_, _)
FirstColon(s, i) ==
    IF i > Len(s) THEN i
    ELSE IF CharAt(s, i) = ":" THEN i ELSE FirstColon(s, i + 1)

\* the checkpoint-relative name as stated: checkpoint_scope in place of the
\* leading scope, the rest kept up to the first colon
LeadingScopeRenamed(x, scope, checkpoint_scope) ==
    checkpoint_scope \o SubSeq(x, Len(scope) + 1, FirstColon(x, 1) - 1)

\* C13: every variable restored by an entry is read from the checkpoint
\* under checkpoint_scope + rest, where its name is scope + rest + ":0":
\* the leading scope alone is substituted (an occurrence of the scope string
\* inside rest is kept) and the name is cut at its first colon; the result
\* is split at its last "/" into sub-scope and leaf.
C13_OnlyLeadingScopeReplaced ==
    \A v \in DOMAIN restored_vars :
        \E e \in Registered :
            /\ StartsWith(v, e.scope)
            /\ restored_vars[v] =
                  Initializer(e.checkpoint_name,
                      LeadingScopeRenamed(v, e.scope, e.checkpoint_scope))

\* the registered entries, by position, that offer a restoration of v
MatchingEntries(v) == {i \in DOMAIN restorable : Matches(restorable[i], v)}

\* entry i comes before entry j in ascending scope order (entries of one
\* scope in registration order)
ScopeBefore(i, j) ==
    \/ StrLess(restorable[i].scope, restorable[j].scope)
    \/ restorable[i].scope = restorable[j].scope /\ i < j

\* C16: once the function has returned, a variable is restored exactly
\* when some entry matches it (scope prefixes its name, it is in var_list,
\* the entry's checkpoint lists its renamed name), and its assignment is the
\* one of the first matching entry in ascending scope order; an ancestor
\* scope whose checkpoint does not list the variable does not claim it.
C16_FirstMatchingEntryRestores ==
    pc = "done" =>
        \A v \in GlobalVariables :
            /\ v \in DOMAIN restored_vars <=> MatchingEntries(v) # {}
            /\ v \in DOMAIN restored_vars =>
                  \E i \in MatchingEntries(v) :
                     /\ \A j \in MatchingEntries(v) \ {i} : ScopeBefore(i, j)
                     /\ restored_vars[v] = AssignmentOf(restorable[i], v)

\* C16 witness: "A" and "A/B" are registered, A's checkpoint does not list
\* A/B/w, A/B's does, and the run ended with A/B/w restored from A/B's.
C16_Witness ==
    /\ pc = "done"
    /\ Len(restorable) = 2
    /\ restorable[1].scope = "A" /\ restorable[2].scope = "A/B"
    /\ CheckpointExists(restorable[1].checkpoint_name)
    /\ "A/B/w:0" \in var_list
    /\ ~Matches(restorable[1], "A/B/w:0")
    /\ Matches(restorable[2], "A/B/w:0")
    /\ restored_vars["A/B/w:0"] = AssignmentOf(restorable[2], "A/B/w:0")

\* scope strings, among them every scope of the model with its proper
\* prefixes and extensions
ScopeStrings == {"", "A", "A/", "A/A", "A/B", "A/B/w", "AB", "B", "g", "g/A"}

\* C18: whenever the scopes of two entries differ and both prefix the name
\* of one variable, the entry of the shorter scope stands before the entry
\* of the longer one in the order the loop takes the entries in; for Python
\* strings a proper prefix always sorts first.
C18_AncestorBeforeDescendant ==
    /\ \A i, j \in DOMAIN queue :
          ( /\ queue[i].scope # queue[j].scope
            /\ Len(queue[i].scope) < Len(queue[j].scope)
            /\ \E v \in GlobalVariables :
                  StartsWith(v, queue[i].scope) /\ StartsWith(v, queue[j].scope) )
          => i < j
    /\ \A a, b \in ScopeStrings :
          (StartsWith(b, a) /\ a # b) => StrLess(a, b) /\ ~StrLess(b, a)

\* C18 witness: "A/B" was registered before "A", both prefix A/B/w:0, and
\* the loop is about to take "A" first.
C18_Witness ==
    /\ pc = "loop"
    /\ Len(restorable) = 2
    /\ restorable[1].scope = "A/B" /\ restorable[2].scope = "A"
    /\ Len(queue) = 2
    /\ queue[1].scope = "A" /\ queue[2].scope = "A/B"

\* the scopes of the registered entries are pairwise distinct
DistinctScopes ==
    \A i, j \in DOMAIN restorable :
        i # j => restorable[i].scope # restorable[j].scope

\* the variables of var_list some registered entry matches
Matched == {v \in var_list : \E e \in Registered : Matches(e, v)}

\* the matching entry of least scope, out of the set of registered entries
LeastMatching(v) ==
    CHOOSE e \in Registered :
        /\ Matches(e, v)
        /\ \A e2 \in Registered \ {e} :
              Matches(e2, v) => StrLess(e.scope, e2.scope)

\* C20: when the registered entries have pairwise distinct scopes, the
\* restored map and the freshly-initialised set the function returns are
\* determined by the set of entries, var_list and the checkpoint listings:
\* they are the same for every order of registration.
C20_OrderOfRegistrationIrrelevant ==
    (pc = "done" /\ DistinctScopes) =>
        /\ DOMAIN restored_vars = Matched
        /\ \A v \in Matched :
              restored_vars[v] = AssignmentOf(LeastMatching(v), v)
        /\ restore_op[1].init_others = var_list \ Matched
        /\ restore_op[1].assigns =
              {[var |-> v, value |-> AssignmentOf(LeastMatching(v), v)] :
                  v \in Matched}

\* C20 witness: "A/B" was registered before "A", with different
\* checkpoints that both offer A/B/w; the run over all graph variables
\* ended with A/B/w and A/A/v restored from A's and g freshly initialised.
C20_Witness ==
    /\ pc = "done"
    /\ DistinctScopes
    /\ Len(restorable) = 2
    /\ restorable[1].scope = "A/B" /\ restorable[2].scope = "A"
    /\ restorable[1].checkpoint_name # restorable[2].checkpoint_name
    /\ Matches(restorable[1], "A/B/w:0")
    /\ DOMAIN restored_vars = {"A/B/w:0", "A/A/v:0"}
    /\ restored_vars["A/B/w:0"].checkpoint_name = restorable[2].checkpoint_name
    /\ restore_op[1].init_others = {"g:0"}

====
